---- MODULE Spec2Model ----
(***************************************************************************)
(* Artemis: the interaction state machine (artemisStore), the conversation *)
(* log (conversationStore), the reasoning buffer (reasoningStore) and the  *)
(* MCP event dispatcher (processMCPEvent) that drives them, and the        *)
(* automation store (automationStore) with its clock.                      *)
(*                                                                         *)
(* Each zustand store is one record-valued variable; a store operation is  *)
(* an operator from the store's record (and the call's arguments) to the   *)
(* record after the call, so that handlers which call several operations   *)
(* compose them exactly as the code does.  set(partial) is EXCEPT.         *)
(***************************************************************************)
EXTENDS Integers, Sequences, FiniteSets, TLC

\* ------------------------------------------------------------------ bounds

\* the number of entries a run may create in the three logs together: the
\* machine's messages, the entries (ids) of the conversation log and the
\* thoughts of the reasoning buffer
MaxEntries == 2

\* the number of steps (calls of the automation store and ticks of the
\* clock) a run of the automation store may take
MaxAutomationSteps == 4

\* the number of thoughts a run of the reasoning buffer may append beyond
\* the buffer's capacity
MaxOverflow == 2

\* the number of actions of the rules a sentence is generated for
MaxActions == 3

\* the entries (messages, log entries, thoughts) up to which the handlers of
\* the screen are explored
MaxScreenEntries == 4

\* ------------------------------------------------------------------ values

\* an optional value (T | null | undefined): <<>> is absent, <<x>> is x
None == <<>>
Some(x) == <<x>>

\* what the user is heard to say
Transcriptions == {"a"}

\* texts sent by the assistant or typed by the user
Texts == {"a", "b"}

\* what the assistant responds
Responses == {"b"}

\* the suggestions a caller may pass (only id and title are read by the store)
Suggestions ==
    { [id |-> "s1", title |-> "Lights"],
      [id |-> "s2", title |-> "Heat"] }

\* ExecutionResult
ExecutionResults ==
    [status : {"success", "partial", "failed"}, message : {"r"}]

\* ------------------------------------------------------------------ state

VARIABLES
    artemis,        \* the interaction store (useArtemisStore)
    conversation,   \* the conversation log (useConversationStore)
    reasoning,      \* the reasoning buffer (useReasoningStore)
    automation,     \* the automation store (useAutomationStore)
    now,            \* the clock: what Date.now() returns
    steps,          \* history: the steps the automation store has taken,
                    \* or the thoughts appended to the reasoning buffer
    timers,         \* the callbacks the screen has scheduled with setTimeout
                    \* and that have not fired
    last            \* history: the operation invoked last and its arguments

vars == <<artemis, conversation, reasoning, automation, now, steps, timers, last>>

\* initialState of the interaction store
initialState ==
    [ state |-> "IDLE",
      previousState |-> "null",
      messages |-> <<>>,
      currentTranscription |-> "",
      currentSuggestion |-> None,
      voice |-> [isListening |-> FALSE, transcription |-> "", amplitude |-> 0],
      lastExecutionResult |-> None,
      isOnline |-> TRUE ]

\* ------------------------------------------------- interaction store: log

\* the id and the timestamp addMessage stamps on the entry are read by no
\* operation of the store and are left out of the entry
addMessage(s, message) ==
    [s EXCEPT !.messages = Append(@, message)]

addUserMessage(s, content) ==
    addMessage(s, [type |-> "user", content |-> content])

addAssistantMessage(s, content) ==
    addMessage(s, [type |-> "assistant", content |-> content])

addSystemMessage(s, content) ==
    addMessage(s, [type |-> "system", content |-> content])

\* ------------------------------------------ interaction store: transitions

\* startListening without its state guard
startListening_ignoresState(s) ==
    IF ~s.isOnline THEN s
    ELSE [s EXCEPT
            !.previousState = s.state,
            !.state = "LISTENING",
            !.currentTranscription = "",
            !.voice = [isListening |-> TRUE, transcription |-> "", amplitude |-> 0]]

startListening(s) ==
    IF ~s.isOnline THEN s
    ELSE IF s.state # "IDLE" THEN s
    ELSE [s EXCEPT
            !.previousState = s.state,
            !.state = "LISTENING",
            !.currentTranscription = "",
            !.voice = [isListening |-> TRUE, transcription |-> "", amplitude |-> 0]]

stopListening(s, transcription) ==
    IF s.state # "LISTENING" THEN s
    ELSE [addUserMessage(s, transcription) EXCEPT
            !.previousState = s.state,
            !.state = "PROCESSING",
            !.currentTranscription = transcription,
            !.voice = [isListening |-> FALSE, transcription |-> transcription,
                       amplitude |-> 0]]

cancelListening(s) ==
    IF s.state # "LISTENING" THEN s
    ELSE [s EXCEPT
            !.previousState = s.state,
            !.state = "IDLE",
            !.currentTranscription = "",
            !.voice = [isListening |-> FALSE, transcription |-> "", amplitude |-> 0]]

startProcessing(s) ==
    IF ~s.isOnline
    THEN [s EXCEPT !.state = "OFFLINE", !.previousState = s.state]
    ELSE [s EXCEPT !.previousState = s.state, !.state = "PROCESSING"]

\* startResponding that enters SUGGESTING without storing the suggestion
startResponding_dropsSuggestion(s, response, suggestion) ==
    IF s.state # "PROCESSING" THEN s
    ELSE [addAssistantMessage(s, response) EXCEPT
            !.previousState = s.state,
            !.state = IF suggestion # None THEN "SUGGESTING" ELSE "RESPONDING",
            !.currentSuggestion = None]

\* startResponding that keeps the suggestion in the store when it is given none
startResponding_keepsSuggestion(s, response, suggestion) ==
    IF s.state # "PROCESSING" THEN s
    ELSE [addAssistantMessage(s, response) EXCEPT
            !.previousState = s.state,
            !.state = IF suggestion # None THEN "SUGGESTING" ELSE "RESPONDING",
            !.currentSuggestion = IF suggestion # None THEN suggestion ELSE @]

\* suggestion is optional: None when the caller passes one argument
startResponding(s, response, suggestion) ==
    IF s.state # "PROCESSING" THEN s
    ELSE [addAssistantMessage(s, response) EXCEPT
            !.previousState = s.state,
            !.state = IF suggestion # None THEN "SUGGESTING" ELSE "RESPONDING",
            !.currentSuggestion = suggestion]

finishResponding(s) ==
    IF s.state # "RESPONDING" THEN s
    ELSE IF s.currentSuggestion # None
    THEN [s EXCEPT !.previousState = s.state, !.state = "SUGGESTING"]
    ELSE [s EXCEPT !.previousState = s.state, !.state = "IDLE"]

showSuggestion(s, suggestion) ==
    [s EXCEPT
        !.previousState = s.state,
        !.state = "SUGGESTING",
        !.currentSuggestion = Some(suggestion)]

\* approveSuggestion that confirms nothing in the log
approveSuggestion_noMessage(s) ==
    IF s.state # "SUGGESTING" \/ s.currentSuggestion = None THEN s
    ELSE [s EXCEPT !.previousState = s.state, !.state = "EXECUTING"]

approveSuggestion(s) ==
    IF s.state # "SUGGESTING" \/ s.currentSuggestion = None THEN s
    ELSE [addSystemMessage(s, "Approved: " \o s.currentSuggestion[1].title) EXCEPT
            !.previousState = s.state,
            !.state = "EXECUTING"]

declineSuggestion(s) ==
    IF s.state # "SUGGESTING" THEN s
    ELSE [(IF s.currentSuggestion # None
           THEN addSystemMessage(s, "Declined: " \o s.currentSuggestion[1].title)
           ELSE s) EXCEPT
            !.previousState = s.state,
            !.state = "IDLE",
            !.currentSuggestion = None]

startExecuting(s) ==
    [s EXCEPT !.previousState = s.state, !.state = "EXECUTING"]

\* finishExecuting that reports every result as an assistant message
finishExecuting_alwaysAssistant(s, result) ==
    [addAssistantMessage(s, result.message) EXCEPT
        !.previousState = "EXECUTING",
        !.state = "IDLE",
        !.currentSuggestion = None,
        !.lastExecutionResult = Some(result)]

finishExecuting(s, result) ==
    [(IF result.status = "success"
      THEN addAssistantMessage(s, result.message)
      ELSE addSystemMessage(s, result.status \o ": " \o result.message)) EXCEPT
        !.previousState = "EXECUTING",
        !.state = "IDLE",
        !.currentSuggestion = None,
        !.lastExecutionResult = Some(result)]

goIdle(s) ==
    [s EXCEPT
        !.previousState = s.state,
        !.state = "IDLE",
        !.currentSuggestion = None,
        !.voice = [isListening |-> FALSE, transcription |-> "", amplitude |-> 0]]

setOffline(s, offline) ==
    IF offline
    THEN [s EXCEPT !.previousState = s.state, !.state = "OFFLINE", !.isOnline = FALSE]
    ELSE [s EXCEPT !.previousState = "OFFLINE", !.state = "IDLE", !.isOnline = TRUE]

reset(s) == initialState

\* -------------------------------------------------------- conversation log

\* generated counts the ids generateId has produced: it stands for the clock
\* and the random source, which make every generated id a new one
conversationInitialState == [messages |-> <<>>, generated |-> 0]

\* generateId: `msg_${Date.now()}_${random}`, modelled as the n-th fresh id
conversationGenerateId(c) == c.generated + 1

\* message carries type and content and, on a suggestion, suggestion and
\* pending; the optional fields it does not carry are absent (None).  The
\* timestamp is read by no operation and is left out.
conversationAddMessage(c, message) ==
    LET id == conversationGenerateId(c) IN
    [c EXCEPT
        !.messages = Append(@, [message EXCEPT !.id = id]),
        !.generated = id]

\* an entry before addMessage stamps its id
NewEntry(type, content) ==
    [id |-> 0, type |-> type, content |-> content,
     suggestion |-> None, pending |-> None, approved |-> None]

conversationAddUserMessage(c, content) ==
    conversationAddMessage(c, NewEntry("USER", content))

conversationAddAssistantMessage(c, content) ==
    conversationAddMessage(c, NewEntry("ASSISTANT", content))

conversationAddSuggestion(c, content, suggestion) ==
    conversationAddMessage(c,
        [NewEntry("SUGGESTION", content) EXCEPT
            !.suggestion = Some(suggestion), !.pending = Some(TRUE)])

conversationAddSystemMessage(c, content) ==
    conversationAddMessage(c, NewEntry("SYSTEM", content))

\* { ...msg, ...updates }: updates is a record of some of the entry's fields
conversationUpdateMessage(c, id, updates) ==
    [c EXCEPT !.messages =
        [i \in DOMAIN @ |->
            IF @[i].id = id
            THEN [f \in DOMAIN @[i] |->
                    IF f \in DOMAIN updates THEN updates[f] ELSE @[i][f]]
            ELSE @[i]]]

\* approveSuggestion that leaves the entry pending
conversationApproveSuggestion_keepsPending(c, id) ==
    [c EXCEPT !.messages =
        [i \in DOMAIN @ |->
            IF @[i].id = id THEN [@[i] EXCEPT !.approved = Some(TRUE)] ELSE @[i]]]

conversationApproveSuggestion(c, id) ==
    [c EXCEPT !.messages =
        [i \in DOMAIN @ |->
            IF @[i].id = id
            THEN [@[i] EXCEPT !.approved = Some(TRUE), !.pending = Some(FALSE)]
            ELSE @[i]]]

conversationRejectSuggestion(c, id) ==
    [c EXCEPT !.messages =
        [i \in DOMAIN @ |->
            IF @[i].id = id
            THEN [@[i] EXCEPT !.approved = Some(FALSE), !.pending = Some(FALSE)]
            ELSE @[i]]]

\* Array.prototype.filter
RECURSIVE FilterOutId(_, _)
FilterOutId(msgs, id) ==
    IF msgs = <<>> THEN <<>>
    ELSE IF Head(msgs).id # id
         THEN <<Head(msgs)>> \o FilterOutId(Tail(msgs), id)
         ELSE FilterOutId(Tail(msgs), id)

conversationRemoveMessage(c, id) ==
    [c EXCEPT !.messages = FilterOutId(@, id)]

conversationClear(c) == [c EXCEPT !.messages = <<>>]

\* --------------------------------------------------------- reasoning buffer

reasoningInitialState == [thoughts |-> <<>>, isVisible |-> FALSE, maxThoughts |-> 20]

\* Array.prototype.slice(-n): the last n elements (all of them when n = 0)
SliceLast(seq, n) ==
    IF n = 0 \/ n >= Len(seq) THEN seq
    ELSE SubSeq(seq, Len(seq) - n + 1, Len(seq))

\* addThought that keeps the oldest thoughts when the buffer is full
addThought_keepsOldest(r, thought) ==
    LET updatedThoughts == Append(r.thoughts, thought) IN
    IF Len(updatedThoughts) > r.maxThoughts
    THEN [r EXCEPT !.thoughts = SubSeq(updatedThoughts, 1, r.maxThoughts)]
    ELSE [r EXCEPT !.thoughts = updatedThoughts]

addThought(r, thought) ==
    LET updatedThoughts == Append(r.thoughts, thought) IN
    IF Len(updatedThoughts) > r.maxThoughts
    THEN [r EXCEPT !.thoughts = SliceLast(updatedThoughts, r.maxThoughts)]
    ELSE [r EXCEPT !.thoughts = updatedThoughts]

clearThoughts(r) == [r EXCEPT !.thoughts = <<>>]

setVisible(r, visible) == [r EXCEPT !.isVisible = visible]

toggleVisible(r) == [r EXCEPT !.isVisible = ~@]

\* --------------------------------------------------------- automation store

\* the offsets of the sample rules' timestamps, in milliseconds
Day == 86400000
TwoDays == 172800000

\* the clock when the module is loaded and sampleRules is evaluated
LoadTime == TwoDays + Day

\* { ...base, ...over }
Spread(base, over) ==
    [f \in DOMAIN base \cup DOMAIN over |->
        IF f \in DOMAIN over THEN over[f] ELSE base[f]]

\* a rule carries the fields the store's operations read or write; the
\* description, trigger, conditions, actions, location, riskLevel and
\* createdBy are read by no operation and are left out.  An id is a tuple
\* <<prefix, time, serial>>.
sampleRules ==
    << [ id |-> <<"sample", 0, 1>>,
         name |-> "Cool Down",
         enabled |-> TRUE,
         createdAt |-> LoadTime - Day,
         updatedAt |-> LoadTime - Day,
         lastTriggered |-> None,
         triggerCount |-> 12,
         trustLevel |-> "auto_approve",
         requiresConfirmation |-> FALSE ],
       [ id |-> <<"sample", 0, 2>>,
         name |-> "Evening Lights",
         enabled |-> TRUE,
         createdAt |-> LoadTime - TwoDays,
         updatedAt |-> LoadTime - TwoDays,
         lastTriggered |-> None,
         triggerCount |-> 28,
         trustLevel |-> "auto_approve",
         requiresConfirmation |-> FALSE ] >>

\* generated counts the ids generateRuleId has produced: it stands for the
\* random source, which makes every generated id a new one
automationInitialState == [rules |-> sampleRules, generated |-> 0]

\* generateRuleId: `rule_${Date.now()}_${random}`
generateRuleId(a, time) == <<"rule", time, a.generated + 1>>

TrustLevels == {"ask_always", "ask_once", "auto_approve"}

\* addRule that lets the fields of the data override the ones it assigns
addRule_dataWins(a, time, ruleData) ==
    LET id == generateRuleId(a, time)
        newRule == Spread(Spread([lastTriggered |-> None],
                                 [id |-> id, createdAt |-> time, updatedAt |-> time,
                                  triggerCount |-> 0]),
                          ruleData)
    IN  [a EXCEPT !.rules = Append(@, newRule), !.generated = @ + 1]

\* the optional field a rule's data may not carry is absent (None)
addRule(a, time, ruleData) ==
    LET id == generateRuleId(a, time)
        newRule == Spread(Spread([lastTriggered |-> None], ruleData),
                          [id |-> id, createdAt |-> time, updatedAt |-> time,
                           triggerCount |-> 0])
    IN  [a EXCEPT !.rules = Append(@, newRule), !.generated = @ + 1]

updateRule(a, time, id, updates) ==
    [a EXCEPT !.rules =
        [i \in DOMAIN @ |->
            IF @[i].id = id
            THEN Spread(Spread(@[i], updates), [updatedAt |-> time])
            ELSE @[i]]]

\* Array.prototype.filter
RECURSIVE FilterOutRule(_, _)
FilterOutRule(rules, id) ==
    IF rules = <<>> THEN <<>>
    ELSE IF Head(rules).id # id
         THEN <<Head(rules)>> \o FilterOutRule(Tail(rules), id)
         ELSE FilterOutRule(Tail(rules), id)

deleteRule(a, id) == [a EXCEPT !.rules = FilterOutRule(@, id)]

toggleRule(a, time, id) ==
    [a EXCEPT !.rules =
        [i \in DOMAIN @ |->
            IF @[i].id = id
            THEN Spread(@[i], [enabled |-> ~@[i].enabled, updatedAt |-> time])
            ELSE @[i]]]

enableRule(a, time, id) == updateRule(a, time, id, [enabled |-> TRUE])

disableRule(a, time, id) == updateRule(a, time, id, [enabled |-> FALSE])

\* setRuleTrust that leaves requiresConfirmation as it was
setRuleTrust_keepsConfirmation(a, time, id, trust) ==
    updateRule(a, time, id, [trustLevel |-> trust])

setRuleTrust(a, time, id, trust) ==
    updateRule(a, time, id,
               [trustLevel |-> trust,
                requiresConfirmation |-> (trust = "ask_always")])

\* recordTrigger that counts the trigger on every rule
recordTrigger_everyRule(a, time, id) ==
    [a EXCEPT !.rules =
        [i \in DOMAIN @ |->
            Spread(@[i], [lastTriggered |-> Some(time),
                          triggerCount |-> @[i].triggerCount + 1])]]

recordTrigger(a, time, id) ==
    [a EXCEPT !.rules =
        [i \in DOMAIN @ |->
            IF @[i].id = id
            THEN Spread(@[i], [lastTriggered |-> Some(time),
                               triggerCount |-> @[i].triggerCount + 1])
            ELSE @[i]]]

\* Array.prototype.find: the first rule with the id, or undefined
getRuleById(a, id) ==
    LET found == {i \in DOMAIN a.rules : a.rules[i].id = id} IN
    IF found = {} THEN None
    ELSE Some(a.rules[CHOOSE i \in found : \A j \in found : i <= j])

\* -------------------------------------------------------- sentence generator

\* A string the code looks into (split, replace, padStart) is a sequence of
\* one-character strings; Str turns it into the string it spells.
RECURSIVE Str(_)
Str(chars) ==
    IF chars = <<>> THEN "" ELSE Head(chars) \o Str(Tail(chars))

DigitChars == <<"0", "1", "2", "3", "4", "5", "6", "7", "8", "9">>

\* Number.prototype.toString of a natural number, as characters
RECURSIVE ToChars(_)
ToChars(n) ==
    IF n < 10 THEN <<DigitChars[n + 1]>>
    ELSE Append(ToChars(n \div 10), DigitChars[(n % 10) + 1])

NumberToString(n) == Str(ToChars(n))

\* Number() of a string of decimal digits
RECURSIVE Number(_)
Number(chars) ==
    IF chars = <<>> THEN 0
    ELSE LET d == CHOOSE k \in 0 .. 9 : DigitChars[k + 1] = chars[Len(chars)]
         IN  10 * Number(SubSeq(chars, 1, Len(chars) - 1)) + d

\* String.prototype.split by a one-character separator
RECURSIVE Split(_, _)
Split(chars, sep) ==
    IF \A i \in DOMAIN chars : chars[i] # sep THEN <<chars>>
    ELSE LET k == CHOOSE i \in DOMAIN chars :
                    chars[i] = sep /\ \A j \in 1 .. (i - 1) : chars[j] # sep
         IN  <<SubSeq(chars, 1, k - 1)>> \o Split(SubSeq(chars, k + 1, Len(chars)), sep)

\* String.prototype.padStart with a one-character filler
RECURSIVE PadStart(_, _, _)
PadStart(chars, length, fill) ==
    IF Len(chars) >= length THEN chars
    ELSE PadStart(<<fill>> \o chars, length, fill)

\* Array.prototype.join of strings
RECURSIVE Join(_, _)
Join(strings, sep) ==
    IF strings = <<>> THEN ""
    ELSE IF Len(strings) = 1 THEN strings[1]
         ELSE strings[1] \o sep \o Join(Tail(strings), sep)

\* table[key] || fallback, for a table none of whose entries is empty; the
\* keys are those of the object literal (the keys every object inherits, such
\* as constructor, are left out)
Lookup(table, key, fallback) ==
    IF key \in DOMAIN table THEN table[key] ELSE fallback

\* a value of type string | number | boolean is a record with the one
\* field that names its type; Template is its conversion in a template
\* literal
Template(value) ==
    IF "number" \in DOMAIN value THEN NumberToString(value.number)
    ELSE IF "boolean" \in DOMAIN value
         THEN (IF value.boolean THEN "true" ELSE "false")
         ELSE value.string

\* an optional string, or the fallback when it is absent or empty
OrElse(optional, fallback) ==
    IF optional # None /\ optional[1] # "" THEN optional[1] ELSE fallback

sensorNames ==
    [temperature |-> "temperature", humidity |-> "humidity",
     light_level |-> "light level", motion |-> "motion", door |-> "door",
     window |-> "window"]

operatorWords ==
    (">" :> "goes above") @@ ("<" :> "drops below") @@ ("=" :> "reaches")
        @@ (">=" :> "reaches or exceeds") @@ ("<=" :> "reaches or drops below")

formatSensorTrigger(trigger) ==
    LET sensor == Lookup(sensorNames, trigger.sensorType, trigger.sensorType)
        op == Lookup(operatorWords, trigger.operator, trigger.operator)
        unit == OrElse(trigger.unit,
                       IF trigger.sensorType = "temperature" THEN "°C" ELSE "")
    IN  "the " \o sensor \o " " \o op \o " "
            \o NumberToString(trigger.value) \o unit

dayNames ==
    [mon |-> "Monday", tue |-> "Tuesday", wed |-> "Wednesday",
     thu |-> "Thursday", fri |-> "Friday", sat |-> "Saturday", sun |-> "Sunday"]

\* formatTimeTrigger that adds the repeat suffix whatever the days
formatTimeTrigger_repeatWins(trigger) ==
    LET parts == Split(trigger.time, ":")
        hours == Number(parts[1])
        minutes == Number(parts[2])
        period == IF hours >= 12 THEN "PM" ELSE "AM"
        hour12 == IF hours % 12 # 0 THEN hours % 12 ELSE 12
        timeStr == NumberToString(hour12) \o ":"
                    \o Str(PadStart(ToChars(minutes), 2, "0")) \o " " \o period
    IN  "it's " \o timeStr \o (IF trigger.repeat THEN " every day" ELSE "")

\* formatTimeTrigger that shows the hours as they are modulo 12
formatTimeTrigger_hourZero(trigger) ==
    LET parts == Split(trigger.time, ":")
        hours == Number(parts[1])
        minutes == Number(parts[2])
        period == IF hours >= 12 THEN "PM" ELSE "AM"
        timeStr == NumberToString(hours % 12) \o ":"
                    \o Str(PadStart(ToChars(minutes), 2, "0")) \o " " \o period
    IN  IF trigger.days # None /\ Len(trigger.days[1]) > 0 /\ Len(trigger.days[1]) < 7
        THEN "it's " \o timeStr \o " on "
                \o Join([i \in DOMAIN trigger.days[1] |-> dayNames[trigger.days[1][i]]], ", ")
        ELSE "it's " \o timeStr \o (IF trigger.repeat THEN " every day" ELSE "")

\* trigger.time is 'HH:MM' as characters; trigger.days is optional
formatTimeTrigger(trigger) ==
    LET parts == Split(trigger.time, ":")
        hours == Number(parts[1])
        minutes == Number(parts[2])
        period == IF hours >= 12 THEN "PM" ELSE "AM"
        hour12 == IF hours % 12 # 0 THEN hours % 12 ELSE 12
        timeStr == NumberToString(hour12) \o ":"
                    \o Str(PadStart(ToChars(minutes), 2, "0")) \o " " \o period
    IN  IF trigger.days # None /\ Len(trigger.days[1]) > 0 /\ Len(trigger.days[1]) < 7
        THEN "it's " \o timeStr \o " on "
                \o Join([i \in DOMAIN trigger.days[1] |-> dayNames[trigger.days[1][i]]], ", ")
        ELSE "it's " \o timeStr \o (IF trigger.repeat THEN " every day" ELSE "")

eventNames ==
    [motion_detected |-> "motion is detected", door_opened |-> "the door opens",
     door_closed |-> "the door closes", window_opened |-> "the window opens",
     window_closed |-> "the window closes", presence_home |-> "you arrive home",
     presence_away |-> "you leave home"]

\* String.prototype.replace(/_/g, ' ')
ReplaceUnderscores(chars) ==
    [i \in DOMAIN chars |-> IF chars[i] = "_" THEN " " ELSE chars[i]]

\* trigger.eventName is given as characters
formatEventTrigger(trigger) ==
    Lookup(eventNames, Str(trigger.eventName),
           Str(ReplaceUnderscores(trigger.eventName)))

opWords ==
    ("=" :> "is") @@ ("!=" :> "is not") @@ (">" :> "is above") @@ ("<" :> "is below")

\* an operator outside the table is rendered as the text undefined
formatDeviceTrigger(trigger) ==
    trigger.deviceId \o " " \o trigger.property \o " "
        \o (IF trigger.operator \in DOMAIN opWords
            THEN opWords[trigger.operator] ELSE "undefined")
        \o " " \o Template(trigger.value)

formatTrigger(trigger) ==
    CASE trigger.type = "sensor" -> formatSensorTrigger(trigger)
      [] trigger.type = "time" -> formatTimeTrigger(trigger)
      [] trigger.type = "event" -> formatEventTrigger(trigger)
      [] trigger.type = "device" -> formatDeviceTrigger(trigger)
      [] OTHER -> "something happens"

formatDeviceAction(action) ==
    LET device == OrElse(action.deviceName, action.deviceId) IN
    CASE action.type = "turn_on" -> "turn on the " \o device
      [] action.type = "turn_off" -> "turn off the " \o device
      [] action.type = "toggle" -> "toggle the " \o device

formatSetAction(action) ==
    LET device == OrElse(action.deviceName, action.deviceId)
        unit == OrElse(action.unit, "")
    IN  "set the " \o device \o " " \o action.property \o " to "
            \o Template(action.value) \o unit

formatNotifyAction(action) ==
    "send you a notification: \"" \o action.message \o "\""

formatSceneAction(action) ==
    "activate the \"" \o OrElse(action.sceneName, action.sceneId) \o "\" scene"

formatAction(action) ==
    CASE action.type \in {"turn_on", "turn_off", "toggle"} -> formatDeviceAction(action)
      [] action.type = "set" -> formatSetAction(action)
      [] action.type = "notify" -> formatNotifyAction(action)
      [] action.type = "scene" -> formatSceneAction(action)
      [] action.type = "delay" ->
            "wait " \o NumberToString(action.duration) \o " seconds"
      [] OTHER -> "perform an action"

\* Array.prototype.pop: the array without its last element, and that element
\* (the text undefined when the array is empty)
Pop(array) ==
    IF array = <<>> THEN [array |-> <<>>, popped |-> "undefined"]
    ELSE [array |-> SubSeq(array, 1, Len(array) - 1), popped |-> array[Len(array)]]

\* generateRuleSentence that joins every list of actions with commas
generateRuleSentence_commasOnly(rule) ==
    LET trigger == formatTrigger(rule.trigger)
        actions == [i \in DOMAIN rule.actions |-> formatAction(rule.actions[i])]
        location == IF rule.location # None /\ rule.location # Some("")
                    THEN " in the " \o rule.location[1] ELSE ""
    IN  [returned |-> "I'll " \o Join(actions, ", ") \o location
                        \o " whenever " \o trigger \o ".",
         rule |-> rule]

\* the sentence returned and the rule as the call leaves it: actions is the
\* new array map() returns, so that pop() shortens it and not rule.actions
generateRuleSentence(rule) ==
    LET trigger == formatTrigger(rule.trigger)
        actions == [i \in DOMAIN rule.actions |-> formatAction(rule.actions[i])]
        location == IF rule.location # None /\ rule.location # Some("")
                    THEN " in the " \o rule.location[1] ELSE ""
        actionText ==
            IF Len(actions) = 1 THEN actions[1]
            ELSE IF Len(actions) = 2 THEN actions[1] \o " and " \o actions[2]
                 ELSE Join(Pop(actions).array, ", ") \o ", and " \o Pop(actions).popped
    IN  [returned |-> "I'll " \o actionText \o location
                        \o " whenever " \o trigger \o ".",
         rule |-> rule]

\* ------------------------------------------------------ MCP event dispatcher

\* the three stores the handlers reach through getState()
Stores == [artemis |-> artemis, conversation |-> conversation, reasoning |-> reasoning]

\* the characters the result handler prefixes ("check mark" and "ballot x")
PrefixSuccess == "(v)"
PrefixFailure == "(x)"

\* of the thought's fields only the content is kept: no operation reads the
\* confidence, the step or the timestamp
\* handleThought that also sends the machine back to IDLE
handleThought_goesIdle(w, event) ==
    [w EXCEPT
        !.reasoning = addThought(@, [content |-> event.payload.reasoning]),
        !.artemis = goIdle(@)]

handleThought(w, event) ==
    [w EXCEPT !.reasoning = addThought(@, [content |-> event.payload.reasoning])]

\* handleMessage that enters RESPONDING whatever the machine's state
handleMessage_forcesResponding(w, event) ==
    [w EXCEPT
        !.conversation = conversationAddAssistantMessage(@, event.payload.content),
        !.artemis = [addAssistantMessage(@, event.payload.content) EXCEPT
                        !.previousState = w.artemis.state,
                        !.state = "RESPONDING",
                        !.currentSuggestion = None]]

handleMessage(w, event) ==
    [w EXCEPT
        !.conversation = conversationAddAssistantMessage(@, event.payload.content),
        !.artemis = startResponding(@, event.payload.content, None)]

handleSuggestion(w, event) ==
    [w EXCEPT
        !.conversation = conversationAddSuggestion(@, event.payload.content,
            [actionType |-> event.payload.actionType,
             targetId |-> event.payload.targetId])]

handleExecutionStart(w, event) ==
    [w EXCEPT
        !.conversation = conversationAddSystemMessage(@, event.payload.description),
        !.artemis = startExecuting(@)]

\* payload.message is optional; an absent (or empty) one is replaced
handleExecutionResult(w, event) ==
    LET prefix == IF event.payload.success THEN PrefixSuccess ELSE PrefixFailure
        message == IF event.payload.message # None /\ event.payload.message # Some("")
                   THEN event.payload.message[1]
                   ELSE IF event.payload.success THEN "Action completed"
                        ELSE "Action failed"
    IN  [w EXCEPT
            !.conversation = conversationAddSystemMessage(@, prefix \o " " \o message),
            !.artemis = goIdle(@)]

\* handleError that shows the error message without the remediation hint
handleError_dropsHint(w, event) ==
    [w EXCEPT
        !.conversation = conversationAddSystemMessage(@, event.payload.message),
        !.artemis = goIdle(@)]

\* payload.suggestion is the optional remediation hint
handleError(w, event) ==
    LET message == IF event.payload.suggestion # None /\ event.payload.suggestion # Some("")
                   THEN event.payload.message \o " " \o event.payload.suggestion[1]
                   ELSE event.payload.message
    IN  [w EXCEPT
            !.conversation = conversationAddSystemMessage(@, message),
            !.artemis = goIdle(@)]

\* the six kinds of event the dispatcher has a handler for
EventTypes ==
    {"THOUGHT", "MESSAGE", "SUGGESTION", "EXECUTION_START", "EXECUTION_RESULT",
     "ERROR"}

\* a dispatcher whose default branch records the event as a thought
processMCPEvent_unknownAsThought(w, event) ==
    CASE event.type = "MESSAGE" -> handleMessage(w, event)
      [] event.type = "SUGGESTION" -> handleSuggestion(w, event)
      [] event.type = "EXECUTION_START" -> handleExecutionStart(w, event)
      [] event.type = "EXECUTION_RESULT" -> handleExecutionResult(w, event)
      [] event.type = "ERROR" -> handleError(w, event)
      [] OTHER -> handleThought(w, event)

processMCPEvent(w, event) ==
    CASE event.type = "THOUGHT" -> handleThought(w, event)
      [] event.type = "MESSAGE" -> handleMessage(w, event)
      [] event.type = "SUGGESTION" -> handleSuggestion(w, event)
      [] event.type = "EXECUTION_START" -> handleExecutionStart(w, event)
      [] event.type = "EXECUTION_RESULT" -> handleExecutionResult(w, event)
      [] event.type = "ERROR" -> handleError(w, event)
      [] OTHER -> w

\* the events the upstream may send; the last one is of no enumerated type
MCPEvents(T) ==
    {[type |-> "THOUGHT", payload |-> [reasoning |-> "th"]]}
    \cup {[type |-> "MESSAGE", payload |-> [content |-> t]] : t \in T}
    \cup {[type |-> "SUGGESTION",
           payload |-> [content |-> "q", actionType |-> "device",
                        targetId |-> "lamp", requiresApproval |-> TRUE]]}
    \cup {[type |-> "EXECUTION_START", payload |-> [description |-> "d"]]}
    \cup {[type |-> "EXECUTION_RESULT",
           payload |-> [success |-> TRUE, message |-> None]],
          [type |-> "EXECUTION_RESULT",
           payload |-> [success |-> FALSE, message |-> Some("m")]]}
    \cup {[type |-> "ERROR", payload |-> [message |-> "e", suggestion |-> h]] :
            h \in {None, Some("h")}}
    \cup {[type |-> "PING", payload |-> [reasoning |-> "th"]]}

\* ----------------------------------------------------------------- actions

\* one call: the stores become w; calls that would grow the logs beyond
\* MaxEntries are not explored
Step(op, arg, w) ==
    /\ Len(w.artemis.messages) + w.conversation.generated
            + Len(w.reasoning.thoughts) <= MaxEntries
    /\ artemis' = w.artemis
    /\ conversation' = w.conversation
    /\ reasoning' = w.reasoning
    /\ last' = [op |-> op, arg |-> arg]
    /\ UNCHANGED <<automation, now, steps, timers>>

\* a call of an operation of the interaction store
Call(op, arg, after) == Step(op, arg, [Stores EXCEPT !.artemis = after])

\* a call of an operation of the conversation log
CallConversation(op, arg, after) ==
    Step(op, arg, [Stores EXCEPT !.conversation = after])

OpStartListening == Call("startListening", None, startListening(artemis))

OpStopListening(T) ==
    \E t \in T : Call("stopListening", Some(t), stopListening(artemis, t))

OpCancelListening == Call("cancelListening", None, cancelListening(artemis))

OpStartProcessing == Call("startProcessing", None, startProcessing(artemis))

OpStartResponding(T, S) ==
    \E t \in T : \E sg \in {None} \cup {Some(x) : x \in S} :
        Call("startResponding", [response |-> t, suggestion |-> sg],
             startResponding(artemis, t, sg))

OpFinishResponding == Call("finishResponding", None, finishResponding(artemis))

OpShowSuggestion(S) ==
    \E sg \in S : Call("showSuggestion", Some(sg), showSuggestion(artemis, sg))

OpApproveSuggestion == Call("approveSuggestion", None, approveSuggestion(artemis))

OpDeclineSuggestion == Call("declineSuggestion", None, declineSuggestion(artemis))

OpStartExecuting == Call("startExecuting", None, startExecuting(artemis))

OpFinishExecuting(R) ==
    \E r \in R : Call("finishExecuting", Some(r), finishExecuting(artemis, r))

OpGoIdle == Call("goIdle", None, goIdle(artemis))

OpSetOffline ==
    \E offline \in BOOLEAN :
        Call("setOffline", Some(offline), setOffline(artemis, offline))

OpReset == Call("reset", None, reset(artemis))

\* the ids a caller of the conversation log may hold: those generated so
\* far (some may have been removed since) and 0, which was never generated
KnownIds == 0 .. conversation.generated

OpConversationAddUserMessage(T) ==
    \E t \in T :
        CallConversation("conversation.addUserMessage", Some(t),
                         conversationAddUserMessage(conversation, t))

\* the patches updateMessage is called with: a new content, and pending: true
MessageUpdates == {[content |-> "z"], [pending |-> Some(TRUE)]}

OpConversationUpdateMessage ==
    \E id \in KnownIds : \E updates \in MessageUpdates :
        CallConversation("conversation.updateMessage",
                         [id |-> id, updates |-> updates],
                         conversationUpdateMessage(conversation, id, updates))

OpConversationApproveSuggestion ==
    \E id \in KnownIds :
        CallConversation("conversation.approveSuggestion", Some(id),
                         conversationApproveSuggestion(conversation, id))

OpConversationRejectSuggestion ==
    \E id \in KnownIds :
        CallConversation("conversation.rejectSuggestion", Some(id),
                         conversationRejectSuggestion(conversation, id))

OpConversationRemoveMessage ==
    \E id \in KnownIds :
        CallConversation("conversation.removeMessage", Some(id),
                         conversationRemoveMessage(conversation, id))

OpConversationClear ==
    CallConversation("conversation.clearConversation", None,
                     conversationClear(conversation))

OpProcessMCPEvent(T) ==
    \E event \in MCPEvents(T) :
        Step("processMCPEvent", Some(event), processMCPEvent(Stores, event))

Init ==
    /\ artemis = initialState
    /\ conversation = conversationInitialState
    /\ reasoning = reasoningInitialState
    /\ automation = automationInitialState
    /\ now = LoadTime
    /\ steps = 0
    /\ timers = {}
    /\ last = [op |-> "init", arg |-> None]

\* the interaction store on its own, under every sequence of its operations
Next ==
    \/ OpStartListening
    \/ OpStopListening(Transcriptions)
    \/ OpCancelListening
    \/ OpStartProcessing
    \/ OpStartResponding(Responses, Suggestions)
    \/ OpFinishResponding
    \/ OpShowSuggestion(Suggestions)
    \/ OpApproveSuggestion
    \/ OpDeclineSuggestion
    \/ OpStartExecuting
    \/ OpFinishExecuting(ExecutionResults)
    \/ OpGoIdle
    \/ OpSetOffline
    \/ OpReset

Spec == Init /\ [][Next]_vars

\* the inputs the store's operations are called with beside the dispatcher
OneSuggestion == {[id |-> "s1", title |-> "Lights"]}

\* the dispatcher and the log's approval, with the store operations that
\* take the machine into each of its states (RESPONDING is entered by the
\* dispatcher itself)
NextMCP ==
    \/ OpProcessMCPEvent(Responses)
    \/ OpConversationApproveSuggestion
    \/ OpStartListening
    \/ OpStartProcessing
    \/ OpShowSuggestion(OneSuggestion)
    \/ OpStartExecuting
    \/ OpGoIdle
    \/ OpSetOffline

SpecMCP == Init /\ [][NextMCP]_vars

\* the conversation log under every sequence of its operations and of
\* dispatched events
NextConversation ==
    \/ OpProcessMCPEvent(Texts)
    \/ OpConversationAddUserMessage(Texts)
    \/ OpConversationUpdateMessage
    \/ OpConversationApproveSuggestion
    \/ OpConversationRejectSuggestion
    \/ OpConversationRemoveMessage
    \/ OpConversationClear

SpecConversation == Init /\ [][NextConversation]_vars

\* a call of an operation of the automation store; calls beyond
\* MaxAutomationSteps are not explored
CallAutomation(op, arg, after) ==
    /\ steps < MaxAutomationSteps
    /\ automation' = after
    /\ steps' = steps + 1
    /\ last' = [op |-> op, arg |-> arg]
    /\ UNCHANGED <<artemis, conversation, reasoning, now, timers>>

\* a millisecond passes between two calls
Tick ==
    /\ steps < MaxAutomationSteps
    /\ now' = now + 1
    /\ steps' = steps + 1
    /\ last' = [op |-> "tick", arg |-> None]
    /\ UNCHANGED <<artemis, conversation, reasoning, automation, timers>>

\* the ids a caller may pass: those of the rules in the collection and one
\* that no rule has
RuleIds ==
    {automation.rules[i].id : i \in DOMAIN automation.rules}
        \cup {<<"none", 0, 0>>}

\* the data addRule is called with
RuleData ==
    {[name |-> "n", enabled |-> FALSE, trustLevel |-> "ask_once",
      requiresConfirmation |-> FALSE],
     [name |-> "n", enabled |-> FALSE, trustLevel |-> "ask_once",
      requiresConfirmation |-> FALSE,
      id |-> <<"x", 0, 0>>, createdAt |-> 0, updatedAt |-> 0, triggerCount |-> 7]}

\* the patches updateRule is called with (Partial<AutomationRule>)
RulePatches ==
    {[name |-> "p"],
     [id |-> <<"x", 0, 0>>],
     [createdAt |-> LoadTime + TwoDays],
     [updatedAt |-> 0],
     [triggerCount |-> 0],
     [requiresConfirmation |-> TRUE]}

\* addRule returns the id it generated: last records it
OpAddRule ==
    \E ruleData \in RuleData :
        /\ steps < MaxAutomationSteps
        /\ automation' = addRule(automation, now, ruleData)
        /\ steps' = steps + 1
        /\ last' = [op |-> "addRule", arg |-> Some(ruleData),
                    returned |-> generateRuleId(automation, now)]
        /\ UNCHANGED <<artemis, conversation, reasoning, now, timers>>

OpUpdateRule ==
    \E id \in RuleIds : \E updates \in RulePatches :
        CallAutomation("updateRule", [id |-> id, updates |-> updates],
                       updateRule(automation, now, id, updates))

OpDeleteRule ==
    \E id \in RuleIds :
        CallAutomation("deleteRule", Some(id), deleteRule(automation, id))

OpToggleRule ==
    \E id \in RuleIds :
        CallAutomation("toggleRule", Some(id), toggleRule(automation, now, id))

OpEnableRule ==
    \E id \in RuleIds :
        CallAutomation("enableRule", Some(id), enableRule(automation, now, id))

OpDisableRule ==
    \E id \in RuleIds :
        CallAutomation("disableRule", Some(id), disableRule(automation, now, id))

OpSetRuleTrust ==
    \E id \in RuleIds : \E trust \in TrustLevels :
        CallAutomation("setRuleTrust", [id |-> id, trust |-> trust],
                       setRuleTrust(automation, now, id, trust))

OpRecordTrigger ==
    \E id \in RuleIds :
        CallAutomation("recordTrigger", Some(id), recordTrigger(automation, now, id))

\* the automation store under every sequence of its operations on rules,
\* with a clock that never goes backwards
NextAutomation ==
    \/ OpAddRule
    \/ OpUpdateRule
    \/ OpDeleteRule
    \/ OpToggleRule
    \/ OpEnableRule
    \/ OpDisableRule
    \/ OpSetRuleTrust
    \/ OpRecordTrigger
    \/ Tick

SpecAutomation == Init /\ [][NextAutomation]_vars

\* a call of an operation of the reasoning buffer
CallReasoning(op, arg, after) ==
    /\ reasoning' = after
    /\ last' = [op |-> op, arg |-> arg]
    /\ UNCHANGED <<artemis, conversation, automation, now, timers>>

\* the caller numbers its thoughts (the step of the thought) from 1 on,
\* starting again after the buffer was cleared; appends beyond MaxOverflow
\* more than the capacity are not explored
OpAddThought ==
    LET step == IF reasoning.thoughts = <<>> THEN 1
                ELSE reasoning.thoughts[Len(reasoning.thoughts)].step + 1
        thought == [content |-> "th", step |-> step]
    IN  /\ steps < reasoning.maxThoughts + MaxOverflow
        /\ steps' = steps + 1
        /\ CallReasoning("addThought", Some(thought), addThought(reasoning, thought))

OpClearThoughts ==
    /\ UNCHANGED steps
    /\ CallReasoning("clearThoughts", None, clearThoughts(reasoning))

OpSetVisible ==
    \E visible \in BOOLEAN :
        /\ UNCHANGED steps
        /\ CallReasoning("setVisible", Some(visible), setVisible(reasoning, visible))

OpToggleVisible ==
    /\ UNCHANGED steps
    /\ CallReasoning("toggleVisible", None, toggleVisible(reasoning))

\* the reasoning buffer under every sequence of its operations
NextReasoning ==
    \/ OpAddThought
    \/ OpClearThoughts
    \/ OpSetVisible
    \/ OpToggleVisible

SpecReasoning == Init /\ [][NextReasoning]_vars

\* a handler of the screen: the stores after it, and the callbacks then
\* scheduled
Handler(op, arg, w, scheduled) ==
    /\ Len(w.artemis.messages) + w.conversation.generated
            + Len(w.reasoning.thoughts) <= MaxScreenEntries
    /\ artemis' = w.artemis
    /\ conversation' = w.conversation
    /\ reasoning' = w.reasoning
    /\ timers' = scheduled
    /\ last' = [op |-> op, arg |-> arg]
    /\ UNCHANGED <<automation, now, steps>>

\* the microphone button does nothing in these states
MicDisabled == artemis.state \in {"PROCESSING", "RESPONDING", "EXECUTING", "OFFLINE"}

OpHandlePressIn ==
    /\ ~MicDisabled
    /\ Handler("handlePressIn", None,
               [Stores EXCEPT !.artemis = startListening(artemis)], timers)

OpHandlePressOut ==
    /\ ~MicDisabled
    /\ Handler("handlePressOut", None,
               [Stores EXCEPT !.artemis = startProcessing(artemis)], timers)

\* mockEvents.message and mockEvents.suggestion
MockMessage(content) == [type |-> "MESSAGE", payload |-> [content |-> content]]

MockSuggestion(content, targetId) ==
    [type |-> "SUGGESTION",
     payload |-> [content |-> content, actionType |-> "device",
                  targetId |-> targetId, requiresApproval |-> TRUE]]

\* the reply to what the user said: about the lights it is a message and,
\* later, a suggestion; about anything else it is a message and, later,
\* goIdle. The timer that calls it is cleared when the machine leaves
\* PROCESSING. At most one callback of a kind is pending.
OpSimulateMCPResponse ==
    /\ artemis.state = "PROCESSING"
    /\ \/ /\ "suggestion" \notin timers
          /\ Handler("simulateMCPResponse", Some("light"),
                     processMCPEvent(Stores, MockMessage("I can help with the lighting!")),
                     timers \cup {"suggestion"})
       \/ /\ "goIdle" \notin timers
          /\ Handler("simulateMCPResponse", Some("other"),
                     processMCPEvent(Stores,
                        MockMessage("I understand. How can I help you with that?")),
                     timers \cup {"goIdle"})

\* the callback of simulateMCPResponse that sends the suggestion
OpSuggestionTimer ==
    /\ "suggestion" \in timers
    /\ Handler("timer.suggestion", None,
               processMCPEvent(Stores,
                  MockSuggestion("Would you like me to turn on the lights?",
                                 "light-living-room")),
               timers \ {"suggestion"})

\* the callback of simulateMCPResponse that calls goIdle
OpGoIdleTimer ==
    /\ "goIdle" \in timers
    /\ Handler("timer.goIdle", None, [Stores EXCEPT !.artemis = goIdle(artemis)],
               timers \ {"goIdle"})

\* the suggestion cards that show their buttons
PendingCards ==
    {conversation.messages[i].id : i \in
        {j \in DOMAIN conversation.messages :
            /\ conversation.messages[j].type = "SUGGESTION"
            /\ conversation.messages[j].pending # Some(FALSE)}}

OpHandleApprove ==
    \E messageId \in PendingCards :
        /\ "completion" \notin timers
        /\ Handler("handleApprove", Some(messageId),
                   [Stores EXCEPT
                        !.conversation = conversationApproveSuggestion(@, messageId),
                        !.artemis = startExecuting(@)],
                   timers \cup {"completion"})

\* the callback of handleApprove
OpCompletionTimer ==
    /\ "completion" \in timers
    /\ Handler("timer.completion", None,
               [Stores EXCEPT
                    !.conversation = conversationAddSystemMessage(@, "(v) Action completed"),
                    !.artemis = goIdle(@)],
               timers \ {"completion"})

OpHandleReject ==
    \E messageId \in PendingCards :
        Handler("handleReject", Some(messageId),
                [Stores EXCEPT
                    !.conversation = conversationAddSystemMessage(
                        conversationRejectSuggestion(@, messageId), "Action cancelled"),
                    !.artemis = goIdle(@)],
                timers)

\* the screen: the microphone button, the suggestion cards, the simulated
\* reply and its callbacks, while events keep arriving at the dispatcher
NextUI ==
    \/ OpHandlePressIn
    \/ OpHandlePressOut
    \/ OpSimulateMCPResponse
    \/ OpSuggestionTimer
    \/ OpGoIdleTimer
    \/ OpHandleApprove
    \/ OpCompletionTimer
    \/ OpHandleReject
    \/ OpProcessMCPEvent(Responses)

SpecUI == Init /\ [][NextUI]_vars

\* 'HH:MM' as characters
TimeString(h, m) ==
    PadStart(ToChars(h), 2, "0") \o <<":">> \o PadStart(ToChars(m), 2, "0")

Weekdays == {"mon", "tue", "wed", "thu", "fri", "sat", "sun"}

\* the days of a time trigger: absent, none, some, all but one, all
DayLists ==
    {None, Some(<<>>), Some(<<"mon", "wed">>), Some(<<"sat">>),
     Some(<<"mon", "tue", "wed", "thu", "fri", "sat">>),
     Some(<<"mon", "tue", "wed", "thu", "fri", "sat", "sun">>)}

TimeTriggers ==
    {[type |-> "time", time |-> TimeString(h, m), days |-> d, repeat |-> r] :
        h \in 0 .. 23, m \in 0 .. 59, d \in DayLists, r \in BOOLEAN}

\* sensor types and operators of the tables and one of each outside them
SensorTriggers ==
    {[type |-> "sensor", sensorType |-> st, operator |-> op, value |-> 28,
      unit |-> u] :
        st \in {"temperature", "light_level", "co2"},
        op \in {">", "<=", "~"},
        u \in {None, Some("°C"), Some("%")}}

\* event names as characters: one of the table, one outside it, the empty one
EventTriggers ==
    {[type |-> "event", eventName |-> n] :
        n \in {<<"d", "o", "o", "r", "_", "o", "p", "e", "n", "e", "d">>,
               <<"s", "m", "o", "k", "e", "_", "a", "l", "a", "r", "m">>,
               <<>>}}

DeviceTriggers ==
    {[type |-> "device", deviceId |-> "lamp", property |-> "power",
      operator |-> op, value |-> v] :
        op \in {"=", "!="},
        v \in {[string |-> "on"], [number |-> 5], [boolean |-> TRUE]}}

\* every variant of Trigger, and a trigger of no known type
Triggers ==
    TimeTriggers \cup SensorTriggers \cup EventTriggers \cup DeviceTriggers
        \cup {[type |-> "schedule"]}

\* every variant of Action, and an action of no known type
Actions ==
    {[type |-> t, deviceId |-> "fan-1", deviceName |-> n] :
        t \in {"turn_on", "turn_off", "toggle"}, n \in {None, Some("bedroom fan")}}
    \cup {[type |-> "set", deviceId |-> "light-living", deviceName |-> Some("lights"),
           property |-> "brightness", value |-> [number |-> 70], unit |-> u] :
            u \in {None, Some("%")}}
    \cup {[type |-> "notify", message |-> "Hi"]}
    \cup {[type |-> "delay", duration |-> 30]}
    \cup {[type |-> "scene", sceneId |-> "s1", sceneName |-> n] :
            n \in {None, Some("Movie")}}
    \cup {[type |-> "blink"]}

\* the actions and triggers of the rules a sentence is generated for
RuleActions ==
    {[type |-> "turn_on", deviceId |-> "fan-1", deviceName |-> Some("bedroom fan")],
     [type |-> "set", deviceId |-> "light-living", deviceName |-> Some("lights"),
      property |-> "brightness", value |-> [number |-> 70], unit |-> Some("%")],
     [type |-> "delay", duration |-> 30]}

RuleTriggers ==
    {[type |-> "sensor", sensorType |-> "temperature", operator |-> ">",
      value |-> 28, unit |-> Some("°C")],
     [type |-> "time", time |-> TimeString(18, 30), days |-> None, repeat |-> TRUE]}

\* the sequences over S of length 0 .. n
SeqsUpTo(S, n) == UNION {[1 .. k -> S] : k \in 0 .. n}

\* of a rule, generateRuleSentence reads the trigger, the actions and the
\* optional location
SentenceRules ==
    {[trigger |-> t, actions |-> a, location |-> l] :
        t \in RuleTriggers,
        a \in SeqsUpTo(RuleActions, MaxActions),
        l \in {None, Some("bedroom")}}

\* a call of a function of the sentence generator: last records what it
\* was given and what it returned. The functions keep no state, so a
\* behaviour is one call.
CallFunction(op, arg, returned) ==
    /\ last.op = "init"
    /\ last' = [op |-> op, arg |-> arg, returned |-> returned]
    /\ UNCHANGED <<artemis, conversation, reasoning, automation, now, steps, timers>>

OpFormatTrigger ==
    \E trigger \in Triggers :
        CallFunction("formatTrigger", Some(trigger), formatTrigger(trigger))

OpFormatAction ==
    \E action \in Actions :
        CallFunction("formatAction", Some(action), formatAction(action))

OpGenerateRuleSentence ==
    \E rule \in SentenceRules :
        CallFunction("generateRuleSentence", Some(rule), generateRuleSentence(rule))

\* the sentence generator applied to every input
NextSentence ==
    \/ OpFormatTrigger
    \/ OpFormatAction
    \/ OpGenerateRuleSentence

SpecSentence == Init /\ [][NextSentence]_vars

\* ------------------------------------------------------------------ claims

\* the machine's fields a guarded operation must leave alone when refused
Machine(s) ==
    <<s.state, s.previousState, s.messages, s.currentSuggestion, s.voice>>

\* the operation op is invoked on store s while its precondition is false
PreconditionFails(op, s) ==
    \/ op = "startListening" /\ ~(s.isOnline /\ s.state = "IDLE")
    \/ op \in {"stopListening", "cancelListening"} /\ s.state # "LISTENING"
    \/ op = "startResponding" /\ s.state # "PROCESSING"
    \/ op = "finishResponding" /\ s.state # "RESPONDING"
    \/ op = "approveSuggestion"
         /\ ~(s.state = "SUGGESTING" /\ s.currentSuggestion # None)
    \/ op = "declineSuggestion" /\ s.state # "SUGGESTING"

GuardedOps ==
    {"startListening", "stopListening", "cancelListening", "startResponding",
     "finishResponding", "approveSuggestion", "declineSuggestion"}

UnguardedOps ==
    {"startProcessing", "showSuggestion", "startExecuting", "finishExecuting",
     "goIdle", "setOffline"}

\* log `after` is log `before` with exactly one entry appended
OneAppended(before, after) ==
    /\ Len(after) = Len(before) + 1
    /\ SubSeq(after, 1, Len(before)) = before

\* the step is the dispatcher processing an event of the given type
Processes(type) ==
    /\ last'.op = "processMCPEvent"
    /\ last'.arg[1].type = type

\* C1: in every reachable state of the interaction store, currentSuggestion
\* is non-null only when state = SUGGESTING.
C1_SuggestionOnlyWhileSuggesting ==
    artemis.currentSuggestion # None => artemis.state = "SUGGESTING"

\* C2: a guarded operation invoked while its precondition is false leaves
\* state, previousState, the message log, currentSuggestion and the voice
\* substate unchanged.
C2_RefusedCallChangesNothing ==
    [][PreconditionFails(last'.op, artemis) => Machine(artemis') = Machine(artemis)]_vars

\* startListening has been invoked in PROCESSING, after a transcription was
\* captured, and neither the state nor the voice substate was reset
C2_Witness ==
    /\ last.op = "startListening"
    /\ artemis.state = "PROCESSING"
    /\ artemis.voice.transcription = "a"

\* C3: every operation that performs a transition sets previousState to the
\* value state had immediately before the operation was invoked.
C3_PreviousStateRecorded ==
    [][(\/ last'.op \in UnguardedOps
        \/ last'.op \in GuardedOps /\ ~PreconditionFails(last'.op, artemis))
       => artemis'.previousState = artemis.state]_vars

\* C4: OFFLINE supersedes all other states: isOnline = false implies
\* state = OFFLINE in every reachable state.
C4_OfflineSupersedes ==
    ~artemis.isOnline => artemis.state = "OFFLINE"

\* C5: startResponding(text, suggestion?) invoked in PROCESSING appends
\* exactly one assistant message with content text and ends in SUGGESTING
\* with currentSuggestion = suggestion when a suggestion is given, otherwise
\* in RESPONDING with currentSuggestion = null; previousState becomes
\* PROCESSING.
C5_StartResponding ==
    [][last'.op = "startResponding" /\ artemis.state = "PROCESSING"
       => /\ artemis'.messages =
                Append(artemis.messages,
                       [type |-> "assistant", content |-> last'.arg.response])
          /\ artemis'.previousState = "PROCESSING"
          /\ IF last'.arg.suggestion # None
             THEN /\ artemis'.state = "SUGGESTING"
                  /\ artemis'.currentSuggestion = last'.arg.suggestion
             ELSE /\ artemis'.state = "RESPONDING"
                  /\ artemis'.currentSuggestion = None]_vars

\* startResponding("b", s2) has acted in PROCESSING on a log that already
\* held an entry
C5_Witness ==
    /\ last.op = "startResponding"
    /\ last.arg.response = "b"
    /\ last.arg.suggestion # None
    /\ artemis.state = "SUGGESTING"
    /\ artemis.previousState = "PROCESSING"
    /\ artemis.currentSuggestion = last.arg.suggestion
    /\ artemis.currentSuggestion[1].id = "s2"
    /\ Len(artemis.messages) = 2
    /\ artemis.messages[2] = [type |-> "assistant", content |-> "b"]

\* C6: approveSuggestion invoked in SUGGESTING with a suggestion set appends
\* exactly one system message "Approved: {title}" and moves the machine to
\* EXECUTING; the earlier log entries keep their order and content.
C6_ApproveSuggestion ==
    [][/\ last'.op = "approveSuggestion"
       /\ artemis.state = "SUGGESTING"
       /\ artemis.currentSuggestion # None
       => /\ artemis'.messages =
                Append(artemis.messages,
                       [type |-> "system",
                        content |-> "Approved: " \o artemis.currentSuggestion[1].title])
          /\ artemis'.state = "EXECUTING"]_vars

\* approveSuggestion has acted on suggestion s2 with an earlier entry in the log
C6_Witness ==
    /\ last.op = "approveSuggestion"
    /\ artemis.state = "EXECUTING"
    /\ artemis.previousState = "SUGGESTING"
    /\ Len(artemis.messages) = 2
    /\ artemis.messages[1].type = "user"
    /\ artemis.messages[2] = [type |-> "system", content |-> "Approved: Heat"]

\* C7: finishExecuting(result) invoked from any state ends in IDLE with
\* currentSuggestion = null and lastExecutionResult = result, and appends
\* exactly one message: an assistant message when result.status is success,
\* a system message for partial or failed.
C7_FinishExecuting ==
    [][last'.op = "finishExecuting"
       => /\ artemis'.state = "IDLE"
          /\ artemis'.currentSuggestion = None
          /\ artemis'.lastExecutionResult = last'.arg
          /\ OneAppended(artemis.messages, artemis'.messages)
          /\ artemis'.messages[Len(artemis'.messages)].type =
                IF last'.arg[1].status = "success" THEN "assistant" ELSE "system"]_vars

\* finishExecuting has acted with a partial result while a suggestion was live
\* (the log's first entry records the approval that preceded it)
C7_Witness ==
    /\ last.op = "finishExecuting"
    /\ last.arg[1].status = "partial"
    /\ artemis.state = "IDLE"
    /\ artemis.currentSuggestion = None
    /\ artemis.lastExecutionResult = last.arg
    /\ Len(artemis.messages) = 2
    /\ artemis.messages[1] = [type |-> "system", content |-> "Approved: Lights"]
    /\ artemis.messages[2] = [type |-> "system", content |-> "partial: r"]

\* the conversation log gains exactly one entry of the given type and content
ConversationGains(type, content) ==
    /\ OneAppended(conversation.messages, conversation'.messages)
    /\ LET e == conversation'.messages[Len(conversation'.messages)] IN
          /\ e.type = type
          /\ e.content = content

C9_SuggestionEntersSuggesting ==
    [][Processes("SUGGESTION") => artemis'.state = "SUGGESTING"]_vars

\* C10: a SUGGESTION event processed while the machine is PROCESSING adds
\* exactly one entry to the conversation log, of type SUGGESTION with
\* pending = true; a later approveSuggestion(id) of the log for a pending
\* suggestion entry sets pending = false and approved = true on it and leaves
\* every other entry, and every other field of that entry, unchanged.
C10_SuggestionEntryAndApproval ==
    [][/\ Processes("SUGGESTION") /\ artemis.state = "PROCESSING"
          => /\ ConversationGains("SUGGESTION", last'.arg[1].payload.content)
             /\ conversation'.messages[Len(conversation'.messages)].pending = Some(TRUE)
       /\ last'.op = "conversation.approveSuggestion"
          => /\ Len(conversation'.messages) = Len(conversation.messages)
             /\ \A i \in 1 .. Len(conversation.messages) :
                   LET m == conversation.messages[i] IN
                   IF m.id = last'.arg[1] /\ m.type = "SUGGESTION" /\ m.pending = Some(TRUE)
                   THEN conversation'.messages[i] =
                            [m EXCEPT !.pending = Some(FALSE), !.approved = Some(TRUE)]
                   ELSE m.id # last'.arg[1] => conversation'.messages[i] = m]_vars

\* the suggestion entry the dispatcher added behind another entry has been
\* approved by its id while the machine is PROCESSING; the other entry is
\* as it was added
C10_Witness ==
    /\ last.op = "conversation.approveSuggestion"
    /\ artemis.state = "PROCESSING"
    /\ Len(conversation.messages) = 2
    /\ conversation.messages[1] =
            [NewEntry("ASSISTANT", "b") EXCEPT !.id = 1]
    /\ conversation.messages[2].id = last.arg[1]
    /\ conversation.messages[2].type = "SUGGESTION"
    /\ conversation.messages[2].pending = Some(FALSE)
    /\ conversation.messages[2].approved = Some(TRUE)

\* C11: after any sequence of dispatched events and conversation-log
\* operations, at most one conversation-log entry of type SUGGESTION has
\* pending = true.
C11_SinglePendingSuggestion ==
    Cardinality({i \in DOMAIN conversation.messages :
                    /\ conversation.messages[i].type = "SUGGESTION"
                    /\ conversation.messages[i].pending = Some(TRUE)}) <= 1

\* C12: processing an ERROR event, in any state of the machine, appends
\* exactly one system entry to the conversation log (the error message,
\* followed by the remediation hint when one is present) and leaves the
\* machine in IDLE with currentSuggestion cleared.
C12_ErrorEndsIdle ==
    [][Processes("ERROR")
       => /\ ConversationGains("SYSTEM",
                IF last'.arg[1].payload.suggestion = None
                THEN last'.arg[1].payload.message
                ELSE last'.arg[1].payload.message \o " "
                        \o last'.arg[1].payload.suggestion[1])
          /\ artemis'.state = "IDLE"
          /\ artemis'.currentSuggestion = None]_vars

\* an ERROR event with a hint has been processed while the machine was
\* SUGGESTING with a suggestion set: the log ends with message and hint
C12_Witness ==
    /\ last.op = "processMCPEvent"
    /\ last.arg[1].type = "ERROR"
    /\ last.arg[1].payload.suggestion = Some("h")
    /\ artemis.state = "IDLE"
    /\ artemis.previousState = "SUGGESTING"
    /\ artemis.currentSuggestion = None
    /\ Len(conversation.messages) = 1
    /\ conversation.messages[1].type = "SYSTEM"
    /\ conversation.messages[1].content = "e h"

\* C13: processing a THOUGHT event appends one thought to the reasoning
\* buffer and leaves the interaction state machine (state, previousState,
\* messages, currentSuggestion, voice) and the conversation log unchanged.
C13_ThoughtOnlyReasoning ==
    [][Processes("THOUGHT")
       => /\ reasoning'.thoughts[Len(reasoning'.thoughts)] =
                [content |-> last'.arg[1].payload.reasoning]
          /\ Len(reasoning.thoughts) < reasoning.maxThoughts
                => OneAppended(reasoning.thoughts, reasoning'.thoughts)
          /\ Machine(artemis') = Machine(artemis)
          /\ conversation' = conversation]_vars

\* a second THOUGHT event has been processed while the machine is
\* PROCESSING
C13_Witness ==
    /\ last.op = "processMCPEvent"
    /\ last.arg[1].type = "THOUGHT"
    /\ artemis.state = "PROCESSING"
    /\ reasoning.thoughts = <<[content |-> "th"], [content |-> "th"]>>
    /\ conversation.messages = <<>>

\* C14: processing an event whose type is not one of the six enumerated
\* kinds leaves the interaction state machine, the conversation log and the
\* reasoning buffer unchanged.
C14_UnknownEventDropped ==
    [][/\ last'.op = "processMCPEvent"
       /\ last'.arg[1].type \notin EventTypes
       => /\ artemis' = artemis
          /\ conversation' = conversation
          /\ reasoning' = reasoning]_vars

\* an event of no enumerated type has been processed while the machine is
\* SUGGESTING and both the conversation log and the buffer hold an entry
C14_Witness ==
    /\ last.op = "processMCPEvent"
    /\ last.arg[1].type \notin EventTypes
    /\ artemis.state = "SUGGESTING"
    /\ Len(conversation.messages) = 1
    /\ Len(reasoning.thoughts) = 1

\* C15: across any sequence of conversation-log operations, an entry that
\* is already in the log is never changed, except that an entry of type
\* SUGGESTION with pending = true may become pending = false with approved
\* set (so approveSuggestion / rejectSuggestion change nothing when the id
\* names a non-suggestion entry or a resolved suggestion), and surviving
\* entries keep their insertion order.
C15_EntriesImmutable ==
    [][LET old == conversation.messages
           new == conversation'.messages
       IN  \A i \in DOMAIN old : \A j \in DOMAIN new :
              new[j].id = old[i].id
              => /\ \/ new[j] = old[i]
                    \/ /\ old[i].type = "SUGGESTION"
                       /\ old[i].pending = Some(TRUE)
                       /\ new[j].pending = Some(FALSE)
                       /\ new[j].approved \in {Some(TRUE), Some(FALSE)}
                       /\ new[j] = [old[i] EXCEPT !.pending = new[j].pending,
                                                  !.approved = new[j].approved]
                 /\ \A i2 \in DOMAIN old : \A j2 \in DOMAIN new :
                       new[j2].id = old[i2].id /\ i < i2 => j < j2]_vars

\* the operations of the automation store that map over the collection:
\* they keep every rule at its position
RuleMutators ==
    {"updateRule", "toggleRule", "enableRule", "disableRule", "setRuleTrust",
     "recordTrigger"}

\* the id the step's call was given
CalledRuleId ==
    IF last'.op \in {"updateRule", "setRuleTrust"}
    THEN last'.arg.id
    ELSE last'.arg[1]

\* C16: after any sequence of automation-store operations (addRule,
\* updateRule with any patch, toggleRule, enableRule, disableRule,
\* setRuleTrust, recordTrigger), a rule that is still in the collection has
\* the same id and the same createdAt that addRule gave it.
C16_IdAndCreatedAtImmutable ==
    [][last'.op \in RuleMutators \cup {"addRule"}
       => \A i \in DOMAIN automation.rules :
             automation.rules[i].id[1] = "rule"
             => /\ automation'.rules[i].id = automation.rules[i].id
                /\ automation'.rules[i].createdAt = automation.rules[i].createdAt]_vars

\* C17: with a clock that never goes backwards, for any rule and any
\* sequence of updateRule / toggleRule / recordTrigger calls, the rule's
\* updatedAt never decreases from one state to the next and is always >= its
\* createdAt.
C17_UpdatedAtMonotonic ==
    [][last'.op \in {"updateRule", "toggleRule", "recordTrigger"}
       => \A i \in DOMAIN automation.rules :
             /\ automation'.rules[i].updatedAt >= automation.rules[i].updatedAt
             /\ automation'.rules[i].updatedAt >= automation'.rules[i].createdAt]_vars

\* C18: every store operation that mutates an existing rule (updateRule,
\* toggleRule, enableRule, disableRule, setRuleTrust, recordTrigger) sets
\* that rule's updatedAt to the current time.
C18_MutationBumpsUpdatedAt ==
    [][last'.op \in RuleMutators
       => \A i \in DOMAIN automation.rules :
             automation.rules[i].id = CalledRuleId
             => automation'.rules[i].updatedAt = now]_vars

\* C19: for every rule, triggerCount never decreases and lastTriggered and
\* triggerCount change only through recordTrigger: recordTrigger(id) on an
\* existing rule increases its triggerCount by exactly 1 and sets
\* lastTriggered to now, and no other store operation (including updateRule
\* with any patch) changes either field.
C19_OnlyRecordTriggerCounts ==
    [][last'.op \in RuleMutators \cup {"addRule"}
       => \A i \in DOMAIN automation.rules :
             LET before == automation.rules[i]
                 after == automation'.rules[i]
             IN  /\ after.triggerCount >= before.triggerCount
                 /\ IF last'.op = "recordTrigger" /\ before.id = CalledRuleId
                    THEN /\ after.triggerCount = before.triggerCount + 1
                         /\ after.lastTriggered = Some(now)
                    ELSE /\ after.triggerCount = before.triggerCount
                         /\ after.lastTriggered = before.lastTriggered]_vars

\* C20: setRuleTrust(id, trust) on an existing rule leaves that rule with
\* trustLevel = trust and requiresConfirmation = (trust = ask_always), for
\* each of the three trust levels and whatever the rule's previous values
\* were.
C20_SetRuleTrust ==
    [][last'.op = "setRuleTrust"
       => \A i \in DOMAIN automation.rules :
             automation.rules[i].id = last'.arg.id
             => /\ automation'.rules[i].trustLevel = last'.arg.trust
                /\ automation'.rules[i].requiresConfirmation
                        = (last'.arg.trust = "ask_always")]_vars

\* setRuleTrust(id, ask_always) has acted, a millisecond after it was
\* added, on a rule that addRule created with ask_once and no confirmation
C20_Witness ==
    /\ last.op = "setRuleTrust"
    /\ last.arg.trust = "ask_always"
    /\ Len(automation.rules) = 3
    /\ automation.rules[3].id = last.arg.id
    /\ automation.rules[3].id[1] = "rule"
    /\ automation.rules[3].trustLevel = "ask_always"
    /\ automation.rules[3].requiresConfirmation
    /\ automation.rules[3].updatedAt = now
    /\ automation.rules[3].createdAt < now

RulesOtherThan(rules, id) ==
    SelectSeq(rules, LAMBDA r : r.id # id)

\* C22: updateRule, deleteRule, toggleRule, enableRule, disableRule,
\* setRuleTrust and recordTrigger called with an id that no rule has leave
\* the rule collection unchanged; called with the id of an existing rule
\* they leave every other rule, and the order of the collection, unchanged.
C22_OtherRulesUntouched ==
    [][last'.op \in RuleMutators \cup {"deleteRule"}
       => /\ getRuleById(automation, CalledRuleId) = None
                => automation'.rules = automation.rules
          /\ IF last'.op = "deleteRule"
             THEN automation'.rules
                    = RulesOtherThan(automation.rules, CalledRuleId)
             ELSE /\ Len(automation'.rules) = Len(automation.rules)
                  /\ \A i \in DOMAIN automation.rules :
                        automation.rules[i].id # CalledRuleId
                        => automation'.rules[i] = automation.rules[i]]_vars

\* deleteRule has removed the first sample rule: the second sample rule and
\* an added rule are left, as they were and in their order
C22_Witness ==
    /\ last.op = "deleteRule"
    /\ last.arg[1] = <<"sample", 0, 1>>
    /\ Len(automation.rules) = 2
    /\ automation.rules[1] = sampleRules[2]
    /\ automation.rules[2].id[1] = "rule"

\* C23: the reasoning buffer never holds more than maxThoughts (20)
\* thoughts: after appending maxThoughts + k thoughts (k > 0) with
\* addThought, its length is exactly maxThoughts and it holds exactly the
\* most recent maxThoughts thoughts in the order they were appended, the
\* oldest having been evicted first.
C23_RingBuffer ==
    [][last'.op = "addThought"
       => LET thoughts == reasoning'.thoughts
              appended == last'.arg[1].step
          IN  /\ Len(thoughts) <= reasoning.maxThoughts
              /\ appended > reasoning.maxThoughts
                    => Len(thoughts) = reasoning.maxThoughts
              /\ thoughts[Len(thoughts)] = last'.arg[1]
              /\ \A i \in DOMAIN thoughts :
                    thoughts[i] =
                        [content |-> "th", step |-> appended - Len(thoughts) + i]]_vars

\* two thoughts more than the capacity have been appended since the buffer
\* was last empty: the first two are gone
C23_Witness ==
    /\ last.op = "addThought"
    /\ last.arg[1].step = reasoning.maxThoughts + 2
    /\ Len(reasoning.thoughts) = reasoning.maxThoughts
    /\ reasoning.thoughts[1].step = 3
    /\ reasoning.thoughts[Len(reasoning.thoughts)] = last.arg[1]

\* the call of the sentence generator last records
SentenceArg == last.arg[1]

\* 'h:MM AM' or 'h:MM PM' as the 12-hour clock reads hour h, minute m
TwelveHour(h, m) ==
    LET hour == IF h = 0 \/ h = 12 THEN 12 ELSE h % 12
        shown == IF hour >= 10 THEN "1" \o DigitChars[hour - 9]
                 ELSE DigitChars[hour + 1]
    IN  shown \o ":" \o DigitChars[(m \div 10) + 1] \o DigitChars[(m % 10) + 1]
            \o " " \o (IF h < 12 THEN "AM" ELSE "PM")

\* the days of a time trigger are some, and not all, of the weekdays
SomeDays(trigger) ==
    /\ trigger.days # None
    /\ LET days == {trigger.days[1][i] : i \in DOMAIN trigger.days[1]}
       IN  days # {} /\ days \subseteq Weekdays /\ days # Weekdays

\* a, 'a and b' or 'a, b, and c'
ActionsJoined(actions) ==
    LET n == Len(actions)
    IN  IF n = 1 THEN actions[1]
        ELSE IF n = 2 THEN actions[1] \o " and " \o actions[2]
        ELSE Join(SubSeq(actions, 1, n - 1), ", ") \o ", and " \o actions[n]

\* the rule that turns on the bedroom fan above 28 degrees
BedroomFanRule ==
    [trigger |-> [type |-> "sensor", sensorType |-> "temperature", operator |-> ">",
                  value |-> 28, unit |-> Some("°C")],
     actions |-> <<[type |-> "turn_on", deviceId |-> "fan-1",
                    deviceName |-> Some("bedroom fan")]>>,
     location |-> Some("bedroom")]

\* C24: formatTrigger of a time trigger renders "it's {time} on
\* {comma-separated day names}" exactly when days is a non-empty proper
\* subset of the seven weekdays, whatever repeat is; otherwise it renders
\* "it's {time}", followed by " every day" if and only if repeat is true.
C24_TimeTriggerDays ==
    (last.op = "formatTrigger" /\ SentenceArg.type = "time")
        => \E h \in 0 .. 23, m \in 0 .. 59 :
              /\ SentenceArg.time = TimeString(h, m)
              /\ last.returned =
                    "it's " \o TwelveHour(h, m)
                        \o (IF SomeDays(SentenceArg)
                            THEN " on " \o Join([i \in DOMAIN SentenceArg.days[1] |->
                                                   dayNames[SentenceArg.days[1][i]]], ", ")
                            ELSE IF SentenceArg.repeat THEN " every day" ELSE "")

\* {time: '18:30', days: ['mon', 'wed'], repeat: true} has been formatted
C24_Witness ==
    /\ last.op = "formatTrigger"
    /\ SentenceArg = [type |-> "time", time |-> <<"1", "8", ":", "3", "0">>,
                      days |-> Some(<<"mon", "wed">>), repeat |-> TRUE]
    /\ last.returned = "it's 6:30 PM on Monday, Wednesday"

\* C25: generateRuleSentence(rule) returns "I'll " + J + L + " whenever " +
\* formatTrigger(rule.trigger) + ".", where L is " in the {location}" when
\* the rule has a location and empty otherwise, and J joins the formatted
\* actions as "a", "a and b" or "a, b, and c" for one, two, three or more
\* actions; rule.actions is not modified.
C25_RuleSentence ==
    (last.op = "generateRuleSentence" /\ Len(SentenceArg.actions) >= 1)
        => LET rule == SentenceArg
               actions == [i \in DOMAIN rule.actions |-> formatAction(rule.actions[i])]
               location == IF rule.location = None THEN ""
                           ELSE " in the " \o rule.location[1]
           IN  /\ last.returned.returned =
                     "I'll " \o ActionsJoined(actions) \o location \o " whenever "
                         \o formatTrigger(rule.trigger) \o "."
               /\ last.returned.rule.actions = rule.actions
               /\ rule = BedroomFanRule
                    => last.returned.returned =
                         "I'll turn on the bedroom fan in the bedroom whenever the temperature goes above 28°C."

\* three actions have been joined with commas and a final ", and"
C25_Witness ==
    /\ last.op = "generateRuleSentence"
    /\ Len(SentenceArg.actions) = 3
    /\ last.returned.rule.actions = SentenceArg.actions
    /\ last.returned.returned =
          "I'll turn on the bedroom fan, set the lights brightness to 70%, and wait 30 seconds whenever it's 6:30 PM every day."

\* C26: formatTrigger and formatAction are total: for every variant of
\* trigger and of action, and for any eventName or sensorType outside the
\* known tables, they return a non-empty string.
C26_FormattersTotal ==
    last.op \in {"formatTrigger", "formatAction"} => last.returned # ""

\* C27: every 'HH:MM' with HH in 0..23 and MM in 0..59 is rendered
\* 'h:MM AM/PM': the hour shown is 12 when HH is 0 or 12 and HH mod 12
\* otherwise, the period is AM when HH < 12 and PM otherwise, and the
\* minutes keep their two digits.
C27_TwelveHourClock ==
    (/\ last.op = "formatTrigger"
     /\ SentenceArg.type = "time"
     /\ SentenceArg.days = None
     /\ ~SentenceArg.repeat)
        => \E h \in 0 .. 23, m \in 0 .. 59 :
              /\ SentenceArg.time = TimeString(h, m)
              /\ last.returned = "it's " \o TwelveHour(h, m)

\* five past midnight has been formatted
C27_Witness ==
    /\ last.op = "formatTrigger"
    /\ SentenceArg = [type |-> "time", time |-> <<"0", "0", ":", "0", "5">>,
                      days |-> None, repeat |-> FALSE]
    /\ last.returned = "it's 12:05 AM"

\* C28: a callback the screen deferred (the completion callback scheduled
\* when a suggestion is approved, or the delayed goIdle after a plain reply)
\* that fires when the machine has left the state it was scheduled in and a
\* new interaction has begun (the machine is LISTENING or PROCESSING) leaves
\* the machine's state and its voice substate unchanged.
C28_LateCallbackIgnored ==
    [][(last'.op \in {"timer.completion", "timer.goIdle"}
            /\ artemis.state \in {"LISTENING", "PROCESSING"})
        => (artemis'.state = artemis.state /\ artemis'.voice = artemis.voice)]_vars

\* C29: in every state reachable through the operations of the interaction
\* store, state = RESPONDING implies currentSuggestion = null, so that
\* finishResponding invoked in RESPONDING always ends in IDLE and never
\* takes its branch to SUGGESTING.
C29_RespondingHasNoSuggestion ==
    artemis.state = "RESPONDING"
        => /\ artemis.currentSuggestion = None
           /\ finishResponding(artemis).state = "IDLE"

\* finishResponding has taken the machine from RESPONDING to IDLE
C29_Witness ==
    /\ last.op = "finishResponding"
    /\ artemis.previousState = "RESPONDING"
    /\ artemis.state = "IDLE"

\* C30: in every state reachable through the operations of the interaction
\* store, voice.isListening is true if and only if state = LISTENING, also
\* after startProcessing, showSuggestion, startExecuting, finishExecuting
\* or setOffline invoked while LISTENING.
C30_ListeningFlagAgrees ==
    artemis.voice.isListening <=> artemis.state = "LISTENING"

====
